---- MODULE Spec2Model ----
(***************************************************************************)
(* A model of getgeotag.py: the Tk application that geotags the photos of  *)
(* a folder tree with ExifTool and writes a CSV report per folder.         *)
(*                                                                         *)
(* Strings that the program inspects (file names, extensions, paths,       *)
(* command-line arguments) are sequences of one-character strings, so that *)
(* Path.suffix, str.lower, str.startswith and sorted() are computed, not   *)
(* assumed.  The file system and the behaviour of the external tool are    *)
(* the environment: they are drawn in the initial state and stay fixed.    *)
(***************************************************************************)
EXTENDS Integers, Sequences, FiniteSets, TLC

\* ------------------------------------------------------------------ bounds

\* Number of batch runs (worker threads) one behaviour may start.
MaxBatches == 2

\* Longest directory listing drawn for the folders of the scan specification.
MaxFiles == 2

\* --------------------------------------------------------- string helpers

\* getgeotag.py:15
TRACK_EXTENSIONS ==
    { <<".", "g", "p", "x">>, <<".", "k", "m", "l">>,
      <<".", "n", "m", "e", "a">>, <<".", "g", "e", "o">> }

\* getgeotag.py:16
PHOTO_EXTENSIONS ==
    { <<".", "j", "p", "g">>, <<".", "j", "p", "e", "g">>, <<".", "p", "n", "g">>,
      <<".", "t", "i", "f", "f">>, <<".", "t", "i", "f">>, <<".", "c", "r", "2">>,
      <<".", "n", "e", "f">>, <<".", "a", "r", "w">>, <<".", "h", "e", "i", "c">>,
      <<".", "d", "n", "g">> }

\* str.lower() on the letters the model's names use.
LowerChar(c) ==
    CASE c = "G" -> "g" [] c = "P" -> "p" [] c = "X" -> "x"
      [] c = "J" -> "j" [] c = "T" -> "t" [] c = "B" -> "b"
      [] OTHER -> c

Lower(s) == [i \in 1..Len(s) |-> LowerChar(s[i])]

\* Code points of the characters that occur in folder names (sorted() compares
\* str by code point).
CodePoint(c) ==
    CASE c = "B" -> 66 [] c = "R" -> 82 [] c = "a" -> 97 [] c = "b" -> 98
      [] c = "c" -> 99 [] OTHER -> 0

\* str.rfind('.') as a 1-based index, 0 when there is no dot.
RFindDot(s) ==
    LET dots == {i \in 1..Len(s) : s[i] = "."}
    IN  IF dots = {} THEN 0 ELSE CHOOSE i \in dots : \A j \in dots : j <= i

\* pathlib's PurePath.suffix: the part of the name from its last dot, empty
\* when the last dot is the first or the last character of the name.
Suffix(name) ==
    LET i == RFindDot(name)
    IN  IF 1 < i /\ i < Len(name) THEN SubSeq(name, i, Len(name)) ELSE <<>>

\* str.startswith('._')
StartsWithDotUnderscore(name) ==
    Len(name) >= 2 /\ name[1] = "." /\ name[2] = "_"

\* a < b for str: at the first position where they differ a has the smaller
\* code point, or a ends there.
StrLess(a, b) ==
    \E k \in 1..Len(b) :
        /\ \A i \in 1..(k - 1) : i <= Len(a) /\ a[i] = b[i]
        /\ k > Len(a) \/ CodePoint(a[k]) < CodePoint(b[k])

\* ------------------------------------------------------------ file system

\* The folder the batch is started on, its name, and a path that does not exist.
Root == <<"R">>
Missing == <<"c">>

\* A directory entry: its name and whether Path.is_file() holds for it.
File(n) == [name |-> n, isFile |-> TRUE]
Dir(n) == [name |-> n, isFile |-> FALSE]

\* Path of a folder (Path.resolve()) and of an entry inside it.
FolderPath(d) == IF d = Root \/ d = Missing THEN d ELSE Root \o <<"/">> \o d
EntryPath(d, n) == FolderPath(d) \o <<"/">> \o n

VARIABLES
    fs,             \* folder -> its listing, in the order iterdir() yields it
    tool,           \* folder -> how the external tool and the OS behave on it
    toolExists,     \* exiftool.exe is found
    btnState,       \* btn_select's state: "normal" or "disabled"
    lastOpenedDir,  \* last_opened_dir
    uiQueue,        \* callbacks scheduled with root.after(0, ...), oldest first
    textLog,        \* lines of text_log
    pc,             \* worker -> where its batch_process_entry thread stands
    rootDir,        \* worker -> root_dir
    taskFolders,    \* worker -> task_folders
    index,          \* worker -> index of the folder being processed
    completed,      \* worker -> completed_folders
    totalPhotos,    \* worker -> total_processed_photos
    cmd,            \* worker -> cmd of the run_exiftool call in progress
    tmpFiles,       \* temporary argument files that exist
    csvFiles,       \* report files that exist
    calls,          \* history: the invocations of the external tool
    returned,       \* history: worker -> results of process_single_folder
    emitted,        \* history: worker -> messages logged for it, in order
    finishScheduled, \* history: worker -> times finish_task was scheduled
    finishRan       \* history: worker -> times finish_task ran

vars == <<fs, tool, toolExists, btnState, lastOpenedDir, uiQueue, textLog, pc,
          rootDir, taskFolders, index, completed, totalPhotos, cmd, tmpFiles,
          csvFiles, calls, returned, emitted, finishScheduled, finishRan>>

Workers == 1..MaxBatches

\* iterdir() of a folder; a path that is no directory raises.
IsDir(d) == d \in DOMAIN fs
Listing(d) == IF IsDir(d) THEN fs[d] ELSE <<>>

\* Mutant: the scan without its test for "._" names.
ScannedWithForks(e) == e.isFile

\* The test of scan_folder_content on one entry.
Scanned(e) == e.isFile /\ ~StartsWithDotUnderscore(e.name)

IsTrack(e) == Scanned(e) /\ Lower(Suffix(e.name)) \in TRACK_EXTENSIONS
IsPhoto(e) ==
    Scanned(e) /\ Lower(Suffix(e.name)) \notin TRACK_EXTENSIONS
               /\ Lower(Suffix(e.name)) \in PHOTO_EXTENSIONS

\* scan_folder_content: (track_files, photo_files) as resolved paths; an
\* exception of iterdir() is swallowed and leaves both lists empty.
ScanTracks(d) ==
    LET hit == SelectSeq(Listing(d), IsTrack)
    IN  [i \in 1..Len(hit) |-> EntryPath(d, hit[i].name)]
ScanPhotos(d) ==
    LET hit == SelectSeq(Listing(d), IsPhoto)
    IN  [i \in 1..Len(hit) |-> EntryPath(d, hit[i].name)]

Qualifies(d) == ScanTracks(d) # <<>> /\ ScanPhotos(d) # <<>>

\* Mutant: the subfolders in listing order, not sorted.
Unsorted(s) == s

\* sorted(..., key=lambda p: p.name): the stable sort by name.  An element
\* goes behind those with a smaller name and those of equal name before it.
Sorted(s) ==
    LET rank(i) == 1 + Cardinality({j \in DOMAIN s :
                        \/ StrLess(s[j], s[i])
                        \/ ~StrLess(s[i], s[j]) /\ j < i})
    IN  [k \in DOMAIN s |-> s[CHOOSE i \in DOMAIN s : rank(i) = k]]

\* [p for p in root_dir.iterdir() if p.is_dir()], as names, in listing order.
IsSubdir(e) == ~e.isFile
SubdirNames(d) ==
    LET hit == SelectSeq(Listing(d), IsSubdir)
    IN  [i \in 1..Len(hit) |-> hit[i].name]

\* The duplicate filter of batch_process_entry (seen / unique_tasks): of
\* equal entries the first one stays.
Unique(s) ==
    LET first == {i \in DOMAIN s : \A j \in 1..(i - 1) : s[j] # s[i]}
        nth(k) == CHOOSE i \in first : Cardinality({j \in first : j <= i}) = k
    IN  [k \in 1..Cardinality(first) |-> s[nth(k)]]

\* task_folders as batch_process_entry builds it for root_dir d.
BuildQueue(d) ==
    LET subs == Sorted(SubdirNames(d))
    IN  Unique((IF Qualifies(d) THEN <<d>> ELSE <<>>) \o SelectSeq(subs, Qualifies))

\* --------------------------------------------------------- external tool

\* One-character stand-in for a character that the gbk codec cannot encode.
NonGbk == "U+1F600"
GbkEncodable(s) == \A i \in 1..Len(s) : s[i] # NonGbk

\* Mutant: only the first track is passed.
GeotagFirstOnly(tracks) ==
    IF tracks = <<>> THEN <<>> ELSE << <<"-geotag">>, tracks[1] >>

\* The argument list of the write phase (write_args) for the scanned tracks.
GeotagArgs(tracks) ==
    [j \in 1..(2 * Len(tracks)) |->
        IF j % 2 = 1 THEN <<"-geotag">> ELSE tracks[j \div 2]]

WriteArgs(tracks) ==
    << <<"-overwrite_original">>, <<"-P">>, <<"-charset">>, <<"filename=UTF8">> >>
        \o GeotagArgs(tracks)

\* The argument list of the read phase (read_args).
ReadArgs ==
    << <<"-j">>, <<"-q">>, <<"-charset">>, <<"UTF8">>, <<"-charset">>,
       <<"filename=UTF8">>, <<"-FileName">>, <<"-GPSLatitude">>, <<"-n">>,
       <<"-GPSLongitude">>, <<"-n">>, <<"-GPSAltitude">>, <<"-n">>,
       <<"-DateTimeOriginal">> >>

ToolPath == <<"exiftool.exe">>

\* The temporary argument file mkstemp() makes for a call.
TmpFile(w, i, mode) == [w |-> w, index |-> i, mode |-> mode]
TmpPath(t) == <<"tmp", ToString(t.w), ToString(t.index), t.mode>>

\* run_exiftool up to the start of the subprocess: mkstemp, the file list
\* written into the file, cmd extended.  fault names the step that raises,
\* if any.  left is what the finally clause leaves on disk when the call
\* ends here: temp_arg_file is only set after the list is written.
ExiftoolPrepare(t, args, fault) ==
    IF fault = "mkstemp"
        THEN [raised |-> TRUE, exists |-> {}, cmd |-> <<>>]
    ELSE IF fault = "list"
        THEN [raised |-> TRUE, exists |-> {t}, cmd |-> <<>>]
    ELSE [raised |-> FALSE, exists |-> {t},
          cmd |-> <<ToolPath>> \o args \o << <<"-@">>, TmpPath(t) >>]

\* The finally clause of run_exiftool once temp_arg_file is set: the files
\* that still exist afterwards.
ExiftoolCleanup(files, t) == files \ {t}

\* Tokens of the tool's JSON output.
Tok(t, v) == [t |-> t, v |-> v]

\* The items of a JSON array, one object per photo, commas between them.
JsonItems(photos) ==
    [j \in 1..(2 * Len(photos) - 1) |->
        IF j % 2 = 1 THEN Tok("obj", photos[(j + 1) \div 2]) ELSE Tok(",", <<>>)]

\* stdout of the read-mode invocation on a photo list, by the tool's behaviour.
ReadStdout(out, photos) ==
    CASE out = "json" -> <<Tok("[", <<>>)>> \o JsonItems(photos) \o <<Tok("]", <<>>)>>
      [] out = "emptylist" -> <<Tok("[", <<>>), Tok("]", <<>>)>>
      [] out = "truncated" -> <<Tok("[", <<>>)>> \o JsonItems(photos)
      [] OTHER -> <<>>

\* json.loads on that output: an array of objects, or JSONDecodeError.
JsonLoads(toks) ==
    LET n == Len(toks) - 2
        array == /\ n >= 0
                 /\ toks[1].t = "[" /\ toks[Len(toks)].t = "]"
                 /\ n = 0 \/ n % 2 = 1
                 /\ \A j \in 1..n : toks[j + 1].t = (IF j % 2 = 1 THEN "obj" ELSE ",")
    IN  IF array THEN [ok |-> TRUE, val |-> [k \in 1..((n + 1) \div 2) |-> toks[2 * k].v]]
        ELSE [ok |-> FALSE, val |-> <<>>]

CsvHeader == <<"Path", "Name", "Lat", "Lon", "Alt", "Date", "Time">>

\* The rows csv.writer gets onto disk for meta_data, after the header: one
\* row per item up to the first one the gbk codec rejects.
CsvRows(items) ==
    LET bad == {i \in DOMAIN items : ~GbkEncodable(items[i])}
    IN  SubSeq(items, 1, IF bad = {} THEN Len(items)
                         ELSE (CHOOSE i \in bad : \A j \in bad : i <= j) - 1)

\* Mutant: the report file is opened before the output is parsed.
ReportOpensFirst(w, f, stdout, stderr) ==
    LET parsed == JsonLoads(stdout)
        rows   == CsvRows(parsed.val)
        msg(k) == [w |-> w, k |-> k, f |-> f]
    IN  IF ~parsed.ok
            THEN [file |-> <<CsvHeader>>, count |-> 0, named |-> FALSE,
                  msgs |-> <<msg("err_json")>>]
        ELSE IF Len(rows) = Len(parsed.val)
            THEN [file |-> <<CsvHeader>> \o rows, count |-> Len(rows), named |-> TRUE,
                  msgs |-> <<msg("success")>>]
        ELSE [file |-> <<CsvHeader>> \o rows, count |-> 0, named |-> FALSE,
              msgs |-> <<msg("err_csv")>>]

\* The report part of process_single_folder (lines 256-290) on the read
\* output: the file it leaves (none: <<>>), the result it returns, its logs.
Report(w, f, stdout, stderr) ==
    LET parsed == JsonLoads(stdout)
        rows   == CsvRows(parsed.val)
        msg(k) == [w |-> w, k |-> k, f |-> f]
    IN  IF ~parsed.ok
            THEN [file |-> <<>>, count |-> 0, named |-> FALSE,
                  msgs |-> <<msg("err_json")>>
                           \o (IF stderr # <<>> THEN <<msg("exiftool_error")>> ELSE <<>>)]
        ELSE IF parsed.val = <<>>
            THEN [file |-> <<>>, count |-> 0, named |-> FALSE, msgs |-> <<>>]
        ELSE IF Len(rows) = Len(parsed.val)
            THEN [file |-> <<CsvHeader>> \o rows, count |-> Len(rows), named |-> TRUE,
                  msgs |-> <<msg("success")>>]
        ELSE [file |-> <<CsvHeader>> \o rows, count |-> 0, named |-> FALSE,
              msgs |-> <<msg("err_csv")>>]

\* stderr of the read-mode invocation: the tool complains when it prints no
\* complete document.
ReadStderr(out) == IF out \in {"json", "emptylist"} THEN <<>> ELSE <<"Error">>

\* The write-mode invocation's CompletedProcess, by the tool's behaviour.
WriteResult(write) ==
    CASE write = "fail" -> [returncode |-> 1, stdout |-> <<>>, stderr |-> <<"Error">>]
      [] write = "warn" -> [returncode |-> 0, stdout |-> <<"updated">>, stderr |-> <<"Warning">>]
      [] OTHER -> [returncode |-> 0, stdout |-> <<"updated">>, stderr |-> <<>>]

\* The log lines of process_single_folder after the write phase (225-235).
WriteLogs(w, f, proc) ==
    LET msg(k) == [w |-> w, k |-> k, f |-> f]
    IN  IF proc.returncode # 0
            THEN <<msg("warning")>>
                 \o (IF proc.stdout # <<>> THEN <<msg("stdout")>> ELSE <<>>)
                 \o (IF proc.stderr # <<>> THEN <<msg("stderr")>> ELSE <<>>)
        ELSE IF proc.stderr \in {<<"Warning">>, <<"Error">>}
            THEN <<msg("info")>>
        ELSE <<>>

\* The step of run_exiftool that raises in a call of the given mode on f.
FaultIn(f, mode) == IF tool[f].fault.call = mode THEN tool[f].fault.step ELSE "none"

\* Mutant: subprocess.run with check=True, raising on a non-zero exit code.
SubprocessRaisesChecked(f, mode) ==
    \/ FaultIn(f, mode) = "run"
    \/ mode = "write" /\ WriteResult(tool[f].write).returncode # 0

\* subprocess.run (line 173, no check=True) raises only when the process
\* cannot be started; an exit code is returned, never raised.
SubprocessRaises(f, mode) == FaultIn(f, mode) = "run"

\* ------------------------------------------------------------- UI thread

Msg(w, k, f) == [w |-> w, k |-> k, f |-> f]
LogCallback(m) == [cb |-> "log", w |-> m.w, msg |-> m, summary |-> FALSE]
FinishCallback(w, withSummary) ==
    [cb |-> "finish", w |-> w, msg |-> Msg(w, "summary", <<>>), summary |-> withSummary]

LogCallbacks(msgs) == [i \in 1..Len(msgs) |-> LogCallback(msgs[i])]

\* The messages finish_task logs, in the order it logs them.
FinishMsgs(w, withSummary) ==
    (IF withSummary THEN <<Msg(w, "summary", <<>>)>> ELSE <<>>) \o <<Msg(w, "waiting", <<>>)>>

\* Mutant: the line is inserted at the start of the text.
LogInsertFirst(log, m) == <<m>> \o log

\* _log_ui: text_log.insert(tk.END, message).
LogInsert(log, m) == Append(log, m)

\* A worker step logs msgs and then schedules finish_task (fin: "none",
\* "plain" for root.after(0, self.finish_task), "summary" for the lambda).
Emit(w, msgs, fin) ==
    /\ uiQueue' = uiQueue \o LogCallbacks(msgs)
                    \o (IF fin = "none" THEN <<>> ELSE <<FinishCallback(w, fin = "summary")>>)
    /\ emitted' = [emitted EXCEPT ![w] = @ \o msgs]
    /\ finishScheduled' = [finishScheduled EXCEPT ![w] = IF fin = "none" THEN @ ELSE @ + 1]

\* The except clause of batch_process_entry (373-377).
ExceptMsgs(w) == <<Msg(w, "critical", <<>>), Msg(w, "traceback", <<>>)>>

\* The mainloop runs a scheduled _log_ui.
UI_Log ==
    /\ uiQueue # <<>>
    /\ uiQueue[1].cb = "log"
    /\ textLog' = LogInsert(textLog, uiQueue[1].msg)
    /\ uiQueue' = Tail(uiQueue)
    /\ UNCHANGED <<fs, tool, toolExists, btnState, lastOpenedDir, pc, rootDir,
                   taskFolders, index, completed, totalPhotos, cmd, tmpFiles,
                   csvFiles, calls, returned, emitted, finishScheduled, finishRan>>

\* The mainloop runs a scheduled finish_task.
UI_Finish ==
    /\ uiQueue # <<>>
    /\ uiQueue[1].cb = "finish"
    /\ LET w == uiQueue[1].w
           msgs == FinishMsgs(w, uiQueue[1].summary)
       IN  /\ uiQueue' = Tail(uiQueue) \o LogCallbacks(msgs)
           /\ emitted' = [emitted EXCEPT ![w] = @ \o msgs]
           /\ finishRan' = [finishRan EXCEPT ![w] = @ + 1]
    /\ btnState' = "normal"
    /\ UNCHANGED <<fs, tool, toolExists, lastOpenedDir, textLog, pc, rootDir,
                   taskFolders, index, completed, totalPhotos, cmd, tmpFiles,
                   csvFiles, calls, returned, finishScheduled>>

\* select_folder: the button's command.  Tk runs it only while the button is
\* not disabled; askdirectory() returns a directory or nothing (cancelled).
SelectFolder ==
    /\ btnState = "normal"
    /\ \E w \in Workers :
        /\ pc[w] = "idle"
        /\ \A v \in Workers : pc[v] = "idle" => w <= v
        /\ \E folder \in {<<>>, Root} :
            IF folder = <<>>
                THEN UNCHANGED <<lastOpenedDir, btnState, pc, rootDir>>
            ELSE /\ lastOpenedDir' = folder
                 /\ btnState' = "disabled"
                 /\ pc' = [pc EXCEPT ![w] = "start"]
                 /\ rootDir' = [rootDir EXCEPT ![w] = folder]
    /\ UNCHANGED <<fs, tool, toolExists, uiQueue, textLog, taskFolders, index,
                   completed, totalPhotos, cmd, tmpFiles, csvFiles, calls,
                   returned, emitted, finishScheduled, finishRan>>

\* ---------------------------------------------------------- worker thread
\* A worker is observed where its thread blocks: in subprocess.run of the
\* write-mode call ("write_run") and of the read-mode call ("read_run").

WorkerFrame == <<fs, tool, toolExists, btnState, lastOpenedDir, textLog, rootDir, finishRan>>

Folder(w) == taskFolders[w][index[w]]

\* What a step of worker w changes: the locals of batch_process_entry, the
\* files on disk, the tool's invocations, and what it logs and schedules.
Locals(w) ==
    [pc |-> pc[w], queue |-> taskFolders[w], index |-> index[w],
     msgs |-> <<>>, fin |-> "none", tmp |-> tmpFiles, cmd |-> cmd[w],
     csv |-> csvFiles, calls |-> calls, returned |-> returned[w],
     completed |-> completed[w], totalPhotos |-> totalPhotos[w]]

\* Mutant: the except clause logs the exception and schedules nothing.
AbortAndHang(w, st) ==
    [st EXCEPT !.msgs = @ \o ExceptMsgs(w), !.pc = "done"]

\* An exception leaves process_single_folder and the for loop: the except
\* clause of batch_process_entry logs it and schedules finish_task.
Abort(w, st) ==
    [st EXCEPT !.msgs = @ \o ExceptMsgs(w), !.fin = "plain", !.pc = "done"]

\* Lines 353-357: the result of process_single_folder is counted.
Count(w, f, st, count, named) ==
    [st EXCEPT !.returned = Append(@, [folder |-> f, count |-> count, named |-> named]),
               !.completed = IF count > 0 THEN @ + 1 ELSE @,
               !.totalPhotos = IF count > 0 THEN @ + count ELSE @,
               !.msgs = @ \o <<Msg(w, "separator", f)>>]

\* The for loop of batch_process_entry from folder i on (348-371), up to the
\* point where process_single_folder blocks in the write-mode subprocess
\* (198-222, 147-173), an exception is raised, or the loop is over and
\* finish_task is scheduled with the summary.
RECURSIVE Advance(_, _, _, _)
Advance(w, q, i, st) ==
    IF i > Len(q)
        THEN [st EXCEPT !.fin = "summary", !.pc = "done"]
    ELSE LET f == q[i]
             tracks == ScanTracks(f)
             photos == ScanPhotos(f)
             t == TmpFile(w, i, "write")
             prep == ExiftoolPrepare(t, WriteArgs(tracks), FaultIn(f, "write"))
             head == [st EXCEPT !.index = i, !.msgs = @ \o <<Msg(w, "processing", f)>>]
             going == [head EXCEPT !.msgs = @ \o <<Msg(w, "found", f), Msg(w, "writing", f)>>,
                                   !.tmp = @ \cup prep.exists]
         IN  IF tracks = <<>> \/ photos = <<>>
                 THEN Advance(w, q, i + 1,
                              Count(w, f, [head EXCEPT !.msgs = @ \o <<Msg(w, "skipped", f)>>],
                                    0, FALSE))
             ELSE IF prep.raised
                 THEN Abort(w, going)
             ELSE [going EXCEPT !.cmd = prep.cmd, !.pc = "write_run"]

\* The step's changes become the state.
Apply(w, st) ==
    /\ pc' = [pc EXCEPT ![w] = st.pc]
    /\ taskFolders' = [taskFolders EXCEPT ![w] = st.queue]
    /\ index' = [index EXCEPT ![w] = st.index]
    /\ cmd' = [cmd EXCEPT ![w] = st.cmd]
    /\ tmpFiles' = st.tmp
    /\ csvFiles' = st.csv
    /\ calls' = st.calls
    /\ returned' = [returned EXCEPT ![w] = st.returned]
    /\ completed' = [completed EXCEPT ![w] = st.completed]
    /\ totalPhotos' = [totalPhotos EXCEPT ![w] = st.totalPhotos]
    /\ Emit(w, st.msgs, st.fin)
    /\ UNCHANGED WorkerFrame

\* batch_process_entry from its start: the search for exiftool.exe (293-310),
\* task_folders built and announced (312-346), then the loop.
StartStep(w, q) ==
    LET d == rootDir[w]
        st == [Locals(w) EXCEPT !.msgs = <<Msg(w, "rule", <<>>), Msg(w, "analyzing", <<>>)>>]
        announce == <<Msg(w, "queue", <<>>)>>
                    \o [i \in 1..Len(q) |-> Msg(w, "queue_item", q[i])]
                    \o <<Msg(w, "separator", <<>>)>>
    IN  IF ~toolExists
            THEN [st EXCEPT !.msgs = @ \o <<Msg(w, "no_tool", <<>>)>>,
                            !.fin = "plain", !.pc = "done"]
        ELSE IF ~IsDir(d)
            THEN \* root_dir.iterdir() raises
                 Abort(w, st)
        ELSE IF q = <<>>
            THEN [st EXCEPT !.msgs = @ \o <<Msg(w, "no_folders", <<>>)>>,
                            !.fin = "plain", !.pc = "done"]
        ELSE Advance(w, q, 1, [st EXCEPT !.msgs = @ \o announce, !.queue = q])

W_Start(w) ==
    /\ pc[w] = "start"
    /\ \E q \in {BuildQueue(rootDir[w])} :
       \E st \in {StartStep(w, q)} : Apply(w, st)

\* The write-mode subprocess ends with CompletedProcess proc (173-179);
\* process_single_folder goes on to the start of the read-mode subprocess
\* (225-254, 147-173).
WriteRunStep(w, proc) ==
    LET f == Folder(w)
        tw == TmpFile(w, index[w], "write")
        tr == TmpFile(w, index[w], "read")
        prep == ExiftoolPrepare(tr, ReadArgs, FaultIn(f, "read"))
        call == [w |-> w, folder |-> f, mode |-> "write", cmd |-> cmd[w]]
        ended == [Locals(w) EXCEPT !.tmp = ExiftoolCleanup(@, tw)]
        going == [ended EXCEPT !.calls = Append(@, call),
                               !.msgs = WriteLogs(w, f, proc) \o <<Msg(w, "generating", f)>>,
                               !.tmp = @ \cup prep.exists]
    IN  IF SubprocessRaises(f, "write")
            THEN Abort(w, ended)
        ELSE IF prep.raised
            THEN Abort(w, going)
        ELSE [going EXCEPT !.cmd = prep.cmd, !.pc = "read_run"]

W_WriteRun(w) ==
    /\ pc[w] = "write_run"
    /\ \E proc \in {WriteResult(tool[Folder(w)].write)} :
       \E st \in {WriteRunStep(w, proc)} : Apply(w, st)

\* The read-mode subprocess ends, having printed stdout (173-179); the
\* report is written (256-290), the result counted, and the loop goes on
\* with the next folder.
ReadRunStep(w, stdout) ==
    LET f == Folder(w)
        tr == TmpFile(w, index[w], "read")
        out == tool[f].out
        rep == Report(w, f, stdout, ReadStderr(out))
        call == [w |-> w, folder |-> f, mode |-> "read", cmd |-> cmd[w]]
        ended == [Locals(w) EXCEPT !.tmp = ExiftoolCleanup(@, tr)]
        written == [ended EXCEPT !.calls = Append(@, call),
                                 !.csv = IF rep.file = <<>> THEN @
                                         ELSE @ \cup {[w |-> w, folder |-> f, rows |-> rep.file]},
                                 !.msgs = rep.msgs]
    IN  IF SubprocessRaises(f, "read")
            THEN Abort(w, ended)
        ELSE Advance(w, taskFolders[w], index[w] + 1,
                     Count(w, f, written, rep.count, rep.named))

W_ReadRun(w) ==
    /\ pc[w] = "read_run"
    /\ \E stdout \in {ReadStdout(tool[Folder(w)].out, ScanPhotos(Folder(w)))} :
       \E st \in {ReadRunStep(w, stdout)} : Apply(w, st)

\* ------------------------------------------------------------ environment

\* File and folder names of the environments.
TrackGpx == <<"t", ".", "g", "p", "x">>
TrackKml == <<"u", ".", "k", "m", "l">>
TrackUpper == <<"T", ".", "G", "P", "X">>
TrackFork == <<".", "_", "t", ".", "g", "p", "x">>
TrackHidden == <<".", "g", "p", "x">>
PhotoJpg == <<"p", ".", "j", "p", "g">>
PhotoUpper == <<"P", ".", "J", "P", "G">>
PhotoFork == <<".", "_", "p", ".", "j", "p", "g">>
PhotoNonGbk == <<NonGbk, ".", "j", "p", "g">>
Notes == <<"n", ".", "t", "x", "t">>
DirJpg == <<"d", ".", "j", "p", "g">>
SubA == <<"a">>
SubB == <<"B">>

NoFault == [call |-> "none", step |-> "none"]
Faults ==
    {NoFault} \cup [call : {"write", "read"}, step : {"mkstemp", "list", "run"}]
OkTool == [write |-> "ok", out |-> "json", fault |-> NoFault]

\* Sequences without repetition over a set, up to a length.
RECURSIVE Listings(_, _)
Listings(S, n) ==
    IF n = 0 THEN {<<>>}
    ELSE LET shorter == Listings(S, n - 1)
             longest == {l \in shorter : Len(l) = n - 1}
         IN  shorter \cup UNION { {Append(l, e) : e \in S \ {l[i] : i \in 1..Len(l)}} :
                                  l \in longest }

\* The state right after App.__init__ (lines 19-91) in a given environment;
\* argv is sys.argv[1], <<>> when the program is started without one.
InitApp(fsv, toolv, found, argv) ==
    /\ fs = fsv
    /\ tool = toolv
    /\ toolExists = found
    /\ btnState = "normal"
    /\ lastOpenedDir = <<>>
    /\ uiQueue = LogCallbacks(<<Msg(0, "ready", <<>>)>>
                      \o (IF argv # <<>> THEN <<Msg(0, "argument", argv)>> ELSE <<>>))
    /\ textLog = <<>>
    /\ pc = [w \in Workers |-> IF w = 1 /\ argv # <<>> THEN "start" ELSE "idle"]
    /\ rootDir = [w \in Workers |-> IF w = 1 THEN argv ELSE <<>>]
    /\ taskFolders = [w \in Workers |-> <<>>]
    /\ index = [w \in Workers |-> 0]
    /\ completed = [w \in Workers |-> 0]
    /\ totalPhotos = [w \in Workers |-> 0]
    /\ cmd = [w \in Workers |-> <<>>]
    /\ tmpFiles = {}
    /\ csvFiles = {}
    /\ calls = <<>>
    /\ returned = [w \in Workers |-> <<>>]
    /\ emitted = [w \in Workers |-> <<>>]
    /\ finishScheduled = [w \in Workers |-> 0]
    /\ finishRan = [w \in Workers |-> 0]

\* Environments of the specification of the whole application: a root folder
\* and one subfolder, each with or without a track; on the root folder the
\* tool works, reports nothing, or cannot be started.  At most one of
\* the two folders has a track.
FilesApp == { <<File(PhotoJpg)>>, <<File(TrackGpx), File(PhotoJpg)>> }
RootToolsApp ==
    { OkTool, [OkTool EXCEPT !.write = "fail", !.out = "empty"],
      [OkTool EXCEPT !.fault = [call |-> "write", step |-> "run"]] }

Init ==
    \E rf \in FilesApp, sf \in FilesApp, rt \in RootToolsApp,
       found \in BOOLEAN, argv \in {<<>>, Root, Missing} :
        /\ (rf = <<File(PhotoJpg)>> => rt = OkTool)
        /\ (sf # <<File(PhotoJpg)>> => rf = <<File(PhotoJpg)>>)
        /\ InitApp((Root :> (rf \o <<Dir(SubA)>>)) @@ (SubA :> sf),
                   (Root :> rt) @@ (SubA :> OkTool), found, argv)

Next ==
    \/ SelectFolder
    \/ UI_Log
    \/ UI_Finish
    \/ \E w \in Workers : W_Start(w)
    \/ \E w \in Workers : W_WriteRun(w)
    \/ \E w \in Workers : W_ReadRun(w)

Spec == Init /\ [][Next]_vars

\* The steps of the program, as opposed to those of its user.
ProgramStep ==
    \/ UI_Log
    \/ UI_Finish
    \/ \E w \in Workers : W_Start(w) \/ W_WriteRun(w) \/ W_ReadRun(w)

\* The program does not stop while it has a step to take: the mainloop
\* serves its queue, a worker thread goes on, the external tool terminates.
FairSpec == Spec /\ WF_vars(ProgramStep)

\* One batch, started from the command line on the root folder, in every
\* environment of a family: the root folder with no track, one track and
\* photo, two tracks and two photos, or a photo whose name gbk cannot
\* encode; any behaviour of the tool and any single fault on the root
\* folder; two subfolders, with or without a track, listed in either order.
RootFilesBatch ==
    { <<File(PhotoJpg)>>,
      <<File(TrackGpx), File(PhotoJpg)>>,
      <<File(TrackGpx), File(PhotoJpg), File(TrackKml), File(PhotoUpper)>>,
      <<File(PhotoJpg), File(PhotoNonGbk), File(TrackGpx)>> }
SubFilesBatch == { <<File(TrackGpx)>>, <<File(PhotoJpg), File(TrackGpx)>> }
ToolsBatch ==
    [write : {"ok", "warn", "fail"},
     out : {"json", "empty", "truncated", "emptylist"},
     fault : Faults]
SubdirOrders == { <<Dir(SubA), Dir(SubB)>>, <<Dir(SubB), Dir(SubA)>> }

InitBatch ==
    \E rf \in RootFilesBatch, rt \in ToolsBatch, order \in SubdirOrders,
       fa \in SubFilesBatch, fb \in SubFilesBatch :
        /\ (rf = <<File(PhotoJpg)>> => rt = OkTool)
        /\ InitApp((Root :> (rf \o order)) @@ (SubA :> fa) @@ (SubB :> fb),
                   (Root :> rt) @@ (SubA :> OkTool) @@ (SubB :> OkTool),
                   TRUE, Root)

NextBatch ==
    \/ UI_Log
    \/ UI_Finish
    \/ \E w \in Workers : W_Start(w)
    \/ \E w \in Workers : W_WriteRun(w)
    \/ \E w \in Workers : W_ReadRun(w)

SpecBatch == InitBatch /\ [][NextBatch]_vars

\* The scan of a batch started on the root folder, for every listing of up
\* to MaxFiles entries in the root folder and in its subfolder.
ScanEntries ==
    { File(TrackGpx), File(TrackUpper), File(TrackFork), File(TrackHidden),
      File(PhotoJpg), File(PhotoFork), File(Notes), Dir(DirJpg) }

InitScan ==
    \E rl \in Listings(ScanEntries, MaxFiles), sl \in Listings(ScanEntries, MaxFiles) :
        InitApp((Root :> (rl \o <<Dir(SubA)>>)) @@ (SubA :> sl) @@ (DirJpg :> <<>>),
                (Root :> OkTool) @@ (SubA :> OkTool) @@ (DirJpg :> OkTool),
                TRUE, Root)

NextScan == \E w \in Workers : W_Start(w)

SpecScan == InitScan /\ [][NextScan]_vars

\* ------------------------------------------------------------------ claims

\* A worker's batch has built its queue: batch_process_entry is past line 331.
QueueBuilt(w) == pc[w] \notin {"idle", "start"} /\ toolExists /\ IsDir(rootDir[w])

\* The candidate folders of a batch: the root and its immediate subfolders.
Entries(d) == {Listing(d)[i] : i \in DOMAIN Listing(d)}
Candidates(w) == {rootDir[w]} \cup {e.name : e \in {x \in Entries(rootDir[w]) : ~x.isFile}}

Selected(w, d) == \E i \in DOMAIN taskFolders[w] : taskFolders[w][i] = d

\* The folder directly contains a file with an extension of the set,
\* letter case ignored.
HasFileWith(d, exts) ==
    \E e \in Entries(d) : e.isFile /\ Lower(Suffix(e.name)) \in exts

\* The same, not counting files whose name starts with "._".
HasPlainFileWith(d, exts) ==
    \E e \in Entries(d) :
        e.isFile /\ ~StartsWithDotUnderscore(e.name) /\ Lower(Suffix(e.name)) \in exts

\* C1 as stated: a candidate folder is selected if and only if it directly
\* contains at least one file with a track extension and at least one file
\* with a photo extension, whatever the files of the folder are.
C1_Original ==
    \A w \in Workers : QueueBuilt(w) =>
        \A d \in Candidates(w) :
            Selected(w, d) <=>
                HasFileWith(d, TRACK_EXTENSIONS) /\ HasFileWith(d, PHOTO_EXTENSIONS)

\* C1, amended: a candidate folder is selected if and only if it directly
\* contains at least one track file and at least one photo file among the
\* files whose name does not start with "._"; nothing else is selected.
C1_Selection ==
    \A w \in Workers : QueueBuilt(w) =>
        /\ \A d \in Candidates(w) :
            Selected(w, d) <=>
                /\ HasPlainFileWith(d, TRACK_EXTENSIONS)
                /\ HasPlainFileWith(d, PHOTO_EXTENSIONS)
        /\ \A i \in DOMAIN taskFolders[w] : taskFolders[w][i] \in Candidates(w)

\* C1's case: the queue is built; one candidate is selected, another is left
\* out although it holds a track file and a photo file, one of them a "._"
\* file.
C1_Witness ==
    \E w \in Workers :
        /\ QueueBuilt(w)
        /\ \E d \in Candidates(w) : Selected(w, d)
        /\ \E d \in Candidates(w) :
            /\ ~Selected(w, d)
            /\ HasFileWith(d, TRACK_EXTENSIONS)
            /\ HasFileWith(d, PHOTO_EXTENSIONS)

\* The invocations of the tool that worker w made for folder f, and their modes.
CallsOf(w, f) == LET mine(c) == c.w = w /\ c.folder = f IN SelectSeq(calls, mine)
Modes(w, f) == [i \in DOMAIN CallsOf(w, f) |-> CallsOf(w, f)[i].mode]

\* The folders process_single_folder was called for by worker w, in order:
\* line 349 logs each right before the call.
Processed(w) ==
    LET starts(m) == m.k = "processing"
        hit == SelectSeq(emitted[w], starts)
    IN  [i \in DOMAIN hit |-> hit[i].f]

\* The except clause of batch_process_entry has run for worker w.
Aborted(w) == \E i \in DOMAIN emitted[w] : emitted[w][i].k = "critical"

\* process_single_folder has ended, by return or by exception, for the i-th
\* folder of worker w's queue.
Ended(w, i) == i < index[w] \/ (i = index[w] /\ pc[w] = "done")

IsPrefix(a, b) == Len(a) <= Len(b) /\ \A i \in DOMAIN a : a[i] = b[i]

\* C2 as stated: once a call of run_exiftool has ended, by return or by an
\* exception at any step, no temporary argument file it created exists: every
\* temporary file that exists belongs to the call now blocked in its
\* subprocess.
C2_Cleanup ==
    \A t \in tmpFiles :
        /\ index[t.w] = t.index
        /\ pc[t.w] = (IF t.mode = "write" THEN "write_run" ELSE "read_run")

\* ExifTool's options for the time correlation: the offset between camera
\* clock and track (-geosync), the time tag with its time zone (-geotime),
\* and the interpolation tolerances (-api GeoMaxIntSecs / GeoMaxExtSecs).
TimeOptions == { <<"-geosync">>, <<"-geotime">>, <<"-api">> }

Tokens(args) == {args[i] : i \in DOMAIN args}
GeotagPairs(args, track) ==
    {i \in 1..(Len(args) - 1) : args[i] = <<"-geotag">> /\ args[i + 1] = track}
WriteCalls == {calls[i] : i \in {j \in DOMAIN calls : calls[j].mode = "write"}}
TracksOf(f) == {ScanTracks(f)[i] : i \in DOMAIN ScanTracks(f)}

\* C3 as stated: in write mode the arguments hold one -geotag <track> pair
\* for every track file of the folder, an overwrite flag, and a
\* time-tolerance or time-zone option.
C3_Original ==
    \A c \in WriteCalls :
        /\ \A track \in TracksOf(c.folder) : Cardinality(GeotagPairs(c.cmd, track)) = 1
        /\ <<"-overwrite_original">> \in Tokens(c.cmd)
        /\ Tokens(c.cmd) \cap TimeOptions # {}

\* C3, amended: in write mode the arguments hold one -geotag <track> pair for
\* every track file of the folder and for nothing else, the overwrite flag,
\* -P and -charset filename=UTF8, then the argument file; they hold no
\* time-tolerance or time-zone option.
C3_WriteArgs ==
    \A c \in WriteCalls :
        /\ \A track \in TracksOf(c.folder) : Cardinality(GeotagPairs(c.cmd, track)) = 1
        /\ \A i \in 1..(Len(c.cmd) - 1) :
            c.cmd[i] = <<"-geotag">> => c.cmd[i + 1] \in TracksOf(c.folder)
        /\ SubSeq(c.cmd, 1, 5) =
            <<ToolPath, <<"-overwrite_original">>, <<"-P">>, <<"-charset">>, <<"filename=UTF8">> >>
        /\ Len(c.cmd) = 5 + 2 * Cardinality(TracksOf(c.folder)) + 2
        /\ c.cmd[Len(c.cmd) - 1] = <<"-@">>
        /\ Tokens(c.cmd) \cap TimeOptions = {}

\* C3's case: the tool was invoked in write mode on a folder with two tracks.
C3_Witness ==
    \E c \in WriteCalls : Cardinality(TracksOf(c.folder)) = 2

\* The read-mode output of the tool on folder f is no JSON document.
BadJson(f) == ~JsonLoads(ReadStdout(tool[f].out, ScanPhotos(f))).ok

HasCsv(w, f) == \E c \in csvFiles : c.w = w /\ c.folder = f
Logged(w, k, f) == \E i \in DOMAIN emitted[w] : emitted[w][i] = Msg(w, k, f)
Counted(w) == Cardinality({i \in DOMAIN returned[w] : returned[w][i].count > 0})

\* C5: whenever the read-mode output is no valid JSON document,
\* process_single_folder creates no CSV file, logs the parse error and
\* returns (0, None); the folder is not counted as completed, and the batch
\* goes on with the next queued folder (after the last one, to the summary).
C5_ParseFailure ==
    \A j \in DOMAIN calls :
        LET w == calls[j].w
            f == calls[j].folder
        IN  calls[j].mode = "read" /\ BadJson(f) =>
                \E i \in DOMAIN returned[w] :
                    /\ returned[w][i] = [folder |-> f, count |-> 0, named |-> FALSE]
                    /\ taskFolders[w][i] = f
                    /\ ~HasCsv(w, f)
                    /\ Logged(w, "err_json", f)
                    /\ completed[w] = Counted(w)
                    /\ i < Len(taskFolders[w]) =>
                        /\ index[w] > i
                        /\ Logged(w, "processing", taskFolders[w][i + 1])
                    /\ i = Len(taskFolders[w]) =>
                        pc[w] = "done" /\ finishScheduled[w] = 1 /\ ~Aborted(w)

\* C5's case: a folder's report failed to parse, and the folder after it in
\* the queue was processed and yielded a report.
C5_Witness ==
    \E w \in Workers : \E i \in DOMAIN returned[w] :
        /\ BadJson(returned[w][i].folder)
        /\ i + 1 \in DOMAIN returned[w]
        /\ returned[w][i + 1].count > 0
        /\ completed[w] = 1

\* C7 as stated: for every queued folder, process_single_folder invokes the
\* tool exactly twice, write mode before read mode.
C7_Original ==
    \A w \in Workers : \A i \in DOMAIN taskFolders[w] :
        Ended(w, i) => Modes(w, taskFolders[w][i]) = <<"write", "read">>

\* C7, amended: process_single_folder invokes the tool at most twice, write
\* mode strictly before read mode; a call that returns has made both
\* invocations, whatever the exit code of the write invocation; only an
\* exception raised by run_exiftool, which aborts the batch, ends the call
\* with fewer than two invocations.
C7_WriteThenRead ==
    \A w \in Workers : \A i \in DOMAIN taskFolders[w] :
        LET f == taskFolders[w][i]
        IN  /\ Modes(w, f) \in {<<>>, <<"write">>, <<"write", "read">>}
            /\ i \in DOMAIN returned[w] => Modes(w, f) = <<"write", "read">>
            /\ Ended(w, i) /\ Modes(w, f) # <<"write", "read">> =>
                /\ Aborted(w)
                /\ tool[f].fault # NoFault
                /\ i \notin DOMAIN returned[w]
            /\ Ended(w, i) /\ tool[f].fault = NoFault =>
                /\ Modes(w, f) = <<"write", "read">>
                /\ i \in DOMAIN returned[w]

\* C7's case: the write invocation exited with a non-zero code, and the call
\* went on to the read invocation and returned.
C7_Witness ==
    \E w \in Workers : \E i \in DOMAIN returned[w] :
        LET f == returned[w][i].folder
        IN  /\ WriteResult(tool[f].write).returncode # 0
            /\ Modes(w, f) = <<"write", "read">>
            /\ Logged(w, "warning", f)

\* The queue of worker w is duplicate-free, holds exactly the qualifying
\* candidates, the root first, the subfolders in ascending order of name.
QueueInOrder(w) ==
    LET q == taskFolders[w]
    IN  /\ \A i, j \in DOMAIN q : i < j =>
            /\ q[i] # q[j]
            /\ q[j] # rootDir[w]
            /\ q[i] # rootDir[w] => StrLess(q[i], q[j])
        /\ \A d \in Candidates(w) : Selected(w, d) <=> Qualifies(d)
        /\ \A i \in DOMAIN q : q[i] \in Candidates(w)

\* A folder that yields no report does not stop the folders after it.
ZeroGoesOn(w) ==
    \A i \in DOMAIN returned[w] :
        returned[w][i].count = 0 /\ i < Len(taskFolders[w]) =>
            Len(Processed(w)) > i

\* C9 as stated: the queue is duplicate-free and in the fixed order, and
\* process_single_folder is called exactly once for each queued folder, in
\* queue order, and for no other folder.
C9_Original ==
    \A w \in Workers : QueueBuilt(w) =>
        /\ QueueInOrder(w)
        /\ IsPrefix(Processed(w), taskFolders[w])
        /\ ZeroGoesOn(w)
        /\ pc[w] = "done" => Processed(w) = taskFolders[w]

\* C9, amended: the queue is duplicate-free and in the fixed order; the
\* folders process_single_folder is called for are, at any time, the first
\* folders of the queue, each once and in queue order; a folder that
\* returns count 0 does not stop the folders after it; and a batch that
\* ends without an exception has processed every queued folder.  (An
\* exception in a folder aborts the batch and leaves the rest unprocessed.)
C9_QueueOrder ==
    \A w \in Workers : QueueBuilt(w) =>
        /\ QueueInOrder(w)
        /\ IsPrefix(Processed(w), taskFolders[w])
        /\ IsPrefix([i \in DOMAIN returned[w] |-> returned[w][i].folder], Processed(w))
        /\ ZeroGoesOn(w)
        /\ pc[w] = "done" /\ ~Aborted(w) => Processed(w) = taskFolders[w]
        /\ pc[w] = "done" /\ Aborted(w) /\ taskFolders[w] # <<>> =>
            Len(returned[w]) < Len(Processed(w))

\* C9's case: root and both subfolders qualify, the subfolders are listed
\* against the order of their names, the root yields no report, and the
\* batch has processed all three in queue order.
C9_Witness ==
    \E w \in Workers :
        /\ pc[w] = "done"
        /\ SubdirNames(rootDir[w]) = <<SubA, SubB>>
        /\ taskFolders[w] = <<Root, SubB, SubA>>
        /\ Processed(w) = taskFolders[w]
        /\ returned[w][1].count = 0
        /\ returned[w][2].count > 0

\* C10 as stated: a report file exists after the call only if the call
\* returned (count, name) with count > 0, and then it holds the header and
\* count rows; when the call returned (0, None), no report file of the call
\* is left.
C10_ReportAgrees ==
    \A w \in Workers :
        /\ \A c \in csvFiles : c.w = w =>
            \E i \in DOMAIN returned[w] :
                /\ returned[w][i].folder = c.folder
                /\ returned[w][i].count > 0
                /\ returned[w][i].named
                /\ Len(c.rows) = returned[w][i].count + 1
        /\ \A i \in DOMAIN returned[w] :
            returned[w][i].count = 0 => ~HasCsv(w, returned[w][i].folder)

\* The lines of the visible log that belong to worker w, and its messages
\* still waiting in the queue of the mainloop.
LogOf(w) == LET mine(m) == m.w = w IN SelectSeq(textLog, mine)
PendingOf(w) ==
    LET mine(c) == c.cb = "log" /\ c.w = w
        hit == SelectSeq(uiQueue, mine)
    IN  [i \in DOMAIN hit |-> hit[i].msg]

InLog(m) == \E i \in DOMAIN textLog : textLog[i] = m

\* A message about one folder of a batch.
PerFolder(m) == m.f # <<>> /\ m.k # "argument"

\* What C4 says of a state: a worker has scheduled finish_task once when
\* its thread is over and not before, finish_task has run at most that
\* often, and when it has run its waiting line is logged.
C4_Once ==
    \A w \in Workers :
        /\ finishScheduled[w] = (IF pc[w] = "done" THEN 1 ELSE 0)
        /\ finishRan[w] <= finishScheduled[w]
        /\ finishRan[w] = 1 =>
            InLog(Msg(w, "waiting", <<>>))
                \/ \E i \in DOMAIN PendingOf(w) : PendingOf(w)[i] = Msg(w, "waiting", <<>>)

\* A step in which finish_task runs leaves the button in state "normal".
C4_ButtonBack ==
    \A w \in Workers : finishRan'[w] # finishRan[w] => btnState' = "normal"

\* C4: every batch run hands control back to the UI exactly once.  Whatever
\* its outcome (tool missing, no qualifying folder, an exception, normal
\* completion), the worker schedules finish_task once, at its very end;
\* finish_task leaves the button in state "normal" and logs the waiting
\* line; and, every thread running on, each started batch gets there.
C4_HandsBack ==
    /\ []C4_Once
    /\ [][C4_ButtonBack]_vars
    /\ \A w \in Workers :
        (pc[w] # "idle") ~> (finishRan[w] = 1 /\ InLog(Msg(w, "waiting", <<>>)))

\* C4's case: one batch ended in an exception, another completed normally;
\* finish_task has run for both, both waiting lines are in the log, and the
\* button is back in state "normal".
C4_Witness ==
    \E v, w \in Workers :
        /\ Aborted(v) /\ ~Aborted(w)
        /\ returned[w] # <<>>
        /\ finishRan[v] = 1 /\ finishRan[w] = 1
        /\ InLog(Msg(v, "waiting", <<>>)) /\ InLog(Msg(w, "waiting", <<>>))
        /\ btnState = "normal"

\* What C6 says of a state: the lines of each worker are in the visible
\* log, followed by those still queued, in exactly the order the worker
\* emitted them; the summary of a batch comes after every per-folder line of
\* the batch and before its waiting line.
C6_InOrder ==
    \A w \in Workers :
        /\ LogOf(w) \o PendingOf(w) = emitted[w]
        /\ \A i \in DOMAIN textLog : textLog[i] = Msg(w, "summary", <<>>) =>
            /\ \A j \in DOMAIN textLog :
                textLog[j].w = w /\ PerFolder(textLog[j]) => j < i
            /\ \A j \in DOMAIN PendingOf(w) : ~PerFolder(PendingOf(w)[j])
            /\ \A j \in DOMAIN emitted[w] : PerFolder(emitted[w][j]) => InLog(emitted[w][j])
            /\ \A j \in DOMAIN textLog : textLog[j] = Msg(w, "waiting", <<>>) => i < j
        /\ InLog(Msg(w, "waiting", <<>>)) /\ Logged(w, "summary", <<>>) =>
            InLog(Msg(w, "summary", <<>>))

\* C6: the visible log only grows by appending, and holds each worker's
\* messages in the order the worker emitted them, the batch summary after
\* the per-folder lines and before the waiting line.
C6_AppendOnlyInOrder ==
    /\ []C6_InOrder
    /\ [][IsPrefix(textLog, textLog')]_vars

\* C6's case: two batches ran at the same time; the log holds a line of one
\* between the lines of the other, and that one's per-folder lines, summary
\* and waiting line.
C6_Witness ==
    \E v, w \in Workers :
        /\ v # w
        /\ InLog(Msg(w, "summary", <<>>))
        /\ InLog(Msg(w, "waiting", <<>>))
        /\ \E i, j, k \in DOMAIN textLog :
            /\ i < j /\ j < k
            /\ textLog[i].w = w /\ PerFolder(textLog[i])
            /\ textLog[j].w = v
            /\ textLog[k] = Msg(w, "summary", <<>>)

\* C8 as stated: at most one batch worker is active at any time, from the
\* start of a batch run, by the button or by the command-line argument,
\* until its finish_task has run.
C8_SingleWorker ==
    Cardinality({w \in Workers : pc[w] # "idle" /\ finishRan[w] = 0}) <= 1

====
